---------------------------- MODULE Spec2Model ----------------------------
(***************************************************************************)
(* The storage provisioning pipeline of ignition: storage.Run of           *)
(* src/exec/storage.go and stage.Run of src/exec/stages/storage/storage.go.*)
(* One behaviour is one call of Run on one configuration.  Every call the  *)
(* pipeline makes on a collaborator (device wait, sgdisk, mdadm, mkfs,     *)
(* temporary directory, mount, file write, unmount, unit activation) is    *)
(* appended to log with its outcome; the outcome of each call is chosen by *)
(* the environment.                                                        *)
(***************************************************************************)
EXTENDS Integers, Sequences, FiniteSets, TLC

VARIABLES
    impl,         \* which Run is executing: "exec" (storage.Run) or "stage" (stage.Run)
    config,       \* the config.Config passed to Run (never modified)
    pc,           \* the position of the control flow inside Run
    idx,          \* the loop index of the entity being processed in the current phase
    sub,          \* the loop index inside the entity (file, drop-in)
    cfErr,        \* the error createFiles is about to return while its defers run
    entered,      \* the phases whose function Run has called, in call order
    completed,    \* the phases whose function returned nil
    result,       \* what Run returned: "none" (still running), "success", "failure"
    err,          \* the error Run logged with Crit, Nil when none
    failedPhase,  \* the phase whose function returned err
    log,          \* the calls made on collaborators so far, in order
    mounted,      \* the filesystems (by index) attached to a temporary mount point
    tmpdirs,      \* the filesystems (by index) whose temporary directory exists
    rootFiles,    \* the regular files written under the target root
    rootLinks,    \* the systemd units (by index) whose path is a symlink to /dev/null
    preset,       \* the lines appended to the preset file
    assembled,    \* the arrays (by index) whose device exists: mdadm has created them
    run,          \* 1 during Run, 2 while the unit phase is run again on its result
    first         \* the regular files the first run left under the target root

vars == <<impl, config, pc, idx, sub, cfErr, entered, completed, result, err,
          failedPhase, log, mounted, tmpdirs, rootFiles, rootLinks, preset,
          assembled, run, first>>

\* The bound on the size of a configuration: the sizes of its lists of
\* entities (see EntitySize and ListSize).
MaxConfigSize == 6

Nil == "nil"

Impls == {"exec", "stage"}

PhaseOrder == <<"Partitions", "Raids", "Filesystems", "Units">>

PhaseNo(p) == CHOOSE n \in 1..Len(PhaseOrder) : PhaseOrder[n] = p

Formats == {"btrfs", "ext4", "zfs"}

(***************************************************************************)
(* Configurations.  A disk is [WipeTable, Partitions] with Partitions the  *)
(* number of declared partitions; an array is [Devices, Spares, Stacked]   *)
(* with Devices the number of member devices and Stacked TRUE when its     *)
(* last member device is the device of the array declared just before it;  *)
(* a filesystem is [Format, Initialize, Options, Files] with Options the   *)
(* number of configured mkfs options and Files the number of declared      *)
(* files; a systemd                                                        *)
(* unit is [Contents, Enable, Mask, DropIns] with Contents TRUE when the   *)
(* contents are non-empty and DropIns the sequence of the same flag for    *)
(* each drop-in; a networkd unit is [Contents].  Entities are named by     *)
(* their position, so every device and unit name is distinct.              *)
(***************************************************************************)
BoolSeqs(n) == UNION {[1..k -> BOOLEAN] : k \in 0..n}

Flag(b) == IF b THEN 1 ELSE 0

RECURSIVE CountTrue(_)
CountTrue(s) == IF s = <<>> THEN 0 ELSE Flag(Head(s)) + CountTrue(Tail(s))

\* The size of an entity: one for the entity itself, one for each partition,
\* member device, spare, file or drop-in, two for each mkfs option, and one
\* for each thing it asks to be done (wipe, stacking, format, non-empty
\* contents, enable, mask).
EntitySize(kind, e) ==
    CASE kind = "disk" -> 1 + e.Partitions + Flag(e.WipeTable)
      [] kind = "array" -> 1 + e.Devices + e.Spares + Flag(e.Stacked)
      [] kind = "filesystem" -> 1 + e.Files + Flag(e.Initialize) + 2 * e.Options
      [] kind = "systemd" -> 1 + Len(e.DropIns) + CountTrue(e.DropIns) + Flag(e.Contents)
                               + Flag(e.Enable) + Flag(e.Mask)
      [] kind = "networkd" -> 1 + Flag(e.Contents)

\* The entities of one kind whose size is at most b.
Entities(kind, b) ==
    LET all ==
        CASE kind = "disk" ->
               [WipeTable : BOOLEAN, Partitions : 0..(b - 1)]
          [] kind = "array" ->
               {a \in [Devices : 1..(b - 1), Spares : 0..(b - 1), Stacked : BOOLEAN] :
                   a.Spares < a.Devices}
          [] kind = "filesystem" ->
               [Format : Formats, Initialize : BOOLEAN, Options : 0..(b - 1),
                Files : 0..(b - 1)]
          [] kind = "systemd" ->
               [Contents : BOOLEAN, Enable : BOOLEAN, Mask : BOOLEAN,
                DropIns : BoolSeqs(b - 1)]
          [] kind = "networkd" ->
               [Contents : BOOLEAN]
    IN  {e \in all : EntitySize(kind, e) <= b}

\* The size of a list of entities of one kind: the sizes of its entities, and
\* one more for every pair of them, so that a list of many entities is larger
\* than a list of a few entities that ask for as much.
RECURSIVE ListSize(_, _)
ListSize(kind, l) ==
    IF l = <<>> THEN 0
    ELSE EntitySize(kind, Head(l)) + Len(Tail(l)) + ListSize(kind, Tail(l))

\* The sequences of entities of one kind whose total size is at most b.
RECURSIVE Lists(_, _)
Lists(kind, b) ==
    {<<>>} \cup
    (IF b < 1 THEN {}
     ELSE UNION {{<<e>> \o l : l \in {m \in Lists(kind, b - EntitySize(kind, e)) :
                                          ListSize(kind, <<e>> \o m) <= b}} :
                    e \in Entities(kind, b)})

ConfigSize(c) ==
    ListSize("disk", c.Disks) + ListSize("array", c.Arrays)
    + ListSize("filesystem", c.Filesystems)
    + ListSize("systemd", c.SystemdUnits) + ListSize("networkd", c.NetworkdUnits)

\* The lists of arrays in which every stacked array has an array before it.
ArrayLists(b) == {l \in Lists("array", b) : l = <<>> \/ ~l[1].Stacked}

\* config is one of the configurations of size at most b.
IsConfig(b) ==
    \E d \in Lists("disk", b) :
    \E a \in ArrayLists(b - ListSize("disk", d)) :
    \E f \in Lists("filesystem", b - ListSize("disk", d) - ListSize("array", a)) :
    \E u \in Lists("systemd", b - ListSize("disk", d) - ListSize("array", a)
                              - ListSize("filesystem", f)) :
    \E n \in Lists("networkd", b - ListSize("disk", d) - ListSize("array", a)
                               - ListSize("filesystem", f) - ListSize("systemd", u)) :
        config = [Disks |-> d, Arrays |-> a, Filesystems |-> f,
                  SystemdUnits |-> u, NetworkdUnits |-> n]

Init ==
    /\ impl \in Impls
    /\ IsConfig(MaxConfigSize)
    /\ pc = "createPartitions"
    /\ idx = 0
    /\ sub = 0
    /\ cfErr = Nil
    /\ entered = <<>>
    /\ completed = <<>>
    /\ result = "none"
    /\ err = Nil
    /\ failedPhase = Nil
    /\ log = <<>>
    /\ mounted = {}
    /\ tmpdirs = {}
    /\ rootFiles = {}
    /\ rootLinks = {}
    /\ preset = <<>>
    /\ assembled = {}
    /\ run = 1
    /\ first = {}

(***************************************************************************)
(* The log of calls on collaborators.  devs is the device list of a wait   *)
(* and <<>> otherwise; arg is the context label of a wait, the executable  *)
(* of a command, the kind of file of a unit write, and "" otherwise; args  *)
(* is the argument list of a command and <<>> otherwise.                   *)
(***************************************************************************)
Ev(op, phase, ent, item, arg, devs, ok) ==
    [op |-> op, phase |-> phase, ent |-> ent, item |-> item, arg |-> arg,
     devs |-> devs, args |-> <<>>, ok |-> ok]

\* exec.Command(exe, args...) run by LogCmd for entity ent.
Cmd(op, phase, ent, exe, args, ok) ==
    [Ev(op, phase, ent, 0, exe, <<>>, ok) EXCEPT !.args = args]

\* Command-line arguments and device paths are triples of the same shape, so
\* that any two can be compared: a literal argument, the decimal rendering of
\* a number (fmt.Sprintf("%d", n)), and the strings of the configuration,
\* named by the entity they belong to.
Lit(s) == <<s, 0, 0>>

Sprintf_d(n) == <<"%d", n, 0>>

\* The call Run makes after the function of `phase` returned nil; "done" when
\* Run returns true.
RunNext(im, phase) ==
    CASE phase = "Partitions" -> "createRaids"
      [] phase = "Raids" -> "createFilesystems"
      [] phase = "Filesystems" -> IF im = "exec" THEN "createUnits" ELSE "done"
      [] phase = "Units" -> "done"

\* A faulty Run that forgets to return after a failed phase.
RunAfterContinue(im, phase, e) == RunNext(im, phase)

\* Where Run goes when the function of `phase` returned e.
RunAfter(im, phase, e) == IF e # Nil THEN "done" ELSE RunNext(im, phase)

\* What Run has returned once the function of `phase` returned e.
RunResult(im, phase, e) ==
    IF e # Nil THEN "failure"
    ELSE IF RunNext(im, phase) = "done" THEN "success" ELSE "none"

\* The function of `phase` returns e to Run.
PhaseReturns(phase, e) ==
    /\ pc' = RunAfter(impl, phase, e)
    /\ result' = RunResult(impl, phase, e)
    /\ completed' = IF e = Nil THEN Append(completed, phase) ELSE completed
    /\ err' = e
    /\ failedPhase' = IF e = Nil THEN failedPhase ELSE phase

\* Control stays inside the current phase function.
Goto(p) ==
    /\ pc' = p
    /\ UNCHANGED <<result, completed, err, failedPhase>>

\* The device lists the phases wait on.
DiskDevs == [i \in 1..Len(config.Disks) |-> <<"disk", i, 0>>]

\* The device created for array a (md.Name).
ArrayDev(a) == <<"array", a, 0>>

\* md.Devices of array a: the last member of a stacked array is the device of
\* the array before it.
Members(a) ==
    [k \in 1..config.Arrays[a].Devices |->
        IF config.Arrays[a].Stacked /\ k = config.Arrays[a].Devices
        THEN ArrayDev(a - 1)
        ELSE <<"member", a, k>>]

RECURSIVE ArrayDevsFrom(_)
ArrayDevsFrom(a) ==
    IF a > Len(config.Arrays) THEN <<>> ELSE Members(a) \o ArrayDevsFrom(a + 1)

\* A faulty createRaids that collects the member devices of the first array
\* only.
ArrayDevsFirstArray == Members(1)

ArrayDevs == ArrayDevsFrom(1)

FilesystemDevs == [i \in 1..Len(config.Filesystems) |-> <<"filesystem", i, 0>>]

\* A faulty waitOnDevices whose error is dropped by the phase.
WaitOnDevicesIgnored(phase, devs, ctxt, loopPc) ==
    \E ok \in BOOLEAN :
        /\ log' = Append(log, Ev("WaitOnDevices", phase, 0, 0, ctxt, devs, ok))
        /\ Goto(loopPc) /\ idx' = 1
        /\ UNCHANGED <<impl, config, assembled, run, first, sub, cfErr, entered, mounted, tmpdirs,
                       rootFiles, rootLinks, preset>>

\* The device exists.  The device of an array exists once mdadm has created
\* it; whether any other device has appeared is for the environment to say.
Exists(dev) == dev[1] = "array" => dev[2] \in assembled

\* systemd.WaitOnDevices returns nil only when every device exists, and an
\* error when the wait ends before that.
WaitResults(devs) ==
    IF \A k \in 1..Len(devs) : Exists(devs[k]) THEN BOOLEAN ELSE {FALSE}

\* waitOnDevices as called by the function of `phase`: one logged wait that
\* either returns nil or fails the phase.
WaitOnDevices(phase, devs, ctxt, loopPc) ==
    \E ok \in WaitResults(devs) :
        /\ log' = Append(log, Ev("WaitOnDevices", phase, 0, 0, ctxt, devs, ok))
        /\ IF ok
           THEN Goto(loopPc) /\ idx' = 1
           ELSE PhaseReturns(phase, "DeviceTimeout") /\ idx' = 0
        /\ UNCHANGED <<impl, config, assembled, run, first, sub, cfErr, entered, mounted, tmpdirs,
                       rootFiles, rootLinks, preset>>

(***************************************************************************)
(* createPartitions                                                        *)
(***************************************************************************)
\* A faulty createPartitions without the early return: with no disks it still
\* waits, for an empty list of devices.
CreatePartitionsWaitsFirst ==
    /\ pc = "createPartitions"
    /\ entered' = Append(entered, "Partitions")
    /\ IF Len(config.Disks) = 0
       THEN /\ log' = Append(log, Ev("WaitOnDevices", "Partitions", 0, 0, "disks", <<>>, TRUE))
            /\ PhaseReturns("Partitions", Nil)
       ELSE Goto("waitDisks") /\ UNCHANGED log
    /\ UNCHANGED <<impl, config, assembled, run, first, idx, sub, cfErr, mounted, tmpdirs,
                   rootFiles, rootLinks, preset>>

CreatePartitions ==
    /\ pc = "createPartitions"
    /\ entered' = Append(entered, "Partitions")
    /\ IF Len(config.Disks) = 0
       THEN PhaseReturns("Partitions", Nil)
       ELSE Goto("waitDisks")
    /\ UNCHANGED <<impl, config, assembled, run, first, idx, sub, cfErr, log, mounted, tmpdirs,
                   rootFiles, rootLinks, preset>>

WaitDisks ==
    /\ pc = "waitDisks"
    /\ WaitOnDevices("Partitions", DiskDevs, "disks", "partitionDisk")

\* A faulty loop body that wipes the table of every disk.
SgdiskOpsWipeAlways(i, dev, ok) ==
    <<Ev("Begin", "Partitions", i, 0, "", <<>>, TRUE),
      Ev("WipeTable", "Partitions", i, 0, "", <<>>, TRUE)>>
    \o [k \in 1..dev.Partitions |-> Ev("CreatePartition", "Partitions", i, k, "", <<>>, TRUE)]
    \o <<Ev("Commit", "Partitions", i, 0, "", <<>>, ok)>>

\* A faulty loop body that wipes the table after queueing the partitions.
SgdiskOpsWipeLast(i, dev, ok) ==
    <<Ev("Begin", "Partitions", i, 0, "", <<>>, TRUE)>>
    \o [k \in 1..dev.Partitions |-> Ev("CreatePartition", "Partitions", i, k, "", <<>>, TRUE)]
    \o (IF dev.WipeTable
        THEN <<Ev("WipeTable", "Partitions", i, 0, "", <<>>, TRUE)>>
        ELSE <<>>)
    \o <<Ev("Commit", "Partitions", i, 0, "", <<>>, ok)>>

\* The partition-table calls of one iteration of the loop over the disks.
SgdiskOps(i, dev, ok) ==
    <<Ev("Begin", "Partitions", i, 0, "", <<>>, TRUE)>>
    \o (IF dev.WipeTable
        THEN <<Ev("WipeTable", "Partitions", i, 0, "", <<>>, TRUE)>>
        ELSE <<>>)
    \o [k \in 1..dev.Partitions |-> Ev("CreatePartition", "Partitions", i, k, "", <<>>, TRUE)]
    \o <<Ev("Commit", "Partitions", i, 0, "", <<>>, ok)>>

PartitionDisk ==
    /\ pc = "partitionDisk"
    /\ \E ok \in BOOLEAN :
        /\ log' = log \o SgdiskOps(idx, config.Disks[idx], ok)
        /\ IF ~ok
           THEN PhaseReturns("Partitions", "CommitError") /\ idx' = 0
           ELSE IF idx < Len(config.Disks)
                THEN Goto("partitionDisk") /\ idx' = idx + 1
                ELSE PhaseReturns("Partitions", Nil) /\ idx' = 0
    /\ UNCHANGED <<impl, config, assembled, run, first, sub, cfErr, entered, mounted, tmpdirs,
                   rootFiles, rootLinks, preset>>

(***************************************************************************)
(* createRaids                                                             *)
(***************************************************************************)
CreateRaids ==
    /\ pc = "createRaids"
    /\ entered' = Append(entered, "Raids")
    /\ IF Len(config.Arrays) = 0
       THEN PhaseReturns("Raids", Nil)
       ELSE Goto("waitRaids")
    /\ UNCHANGED <<impl, config, assembled, run, first, idx, sub, cfErr, log, mounted, tmpdirs,
                   rootFiles, rootLinks, preset>>

WaitRaids ==
    /\ pc = "waitRaids"
    /\ WaitOnDevices("Raids", ArrayDevs, "raids", "mdadm")

\* A faulty argument list that counts the spares among the active devices.
MdadmArgsAllActive(a) ==
    <<Lit("--create"), ArrayDev(a), Lit("--force"), Lit("--run"),
      Lit("--level"), <<"level", a, 0>>,
      Lit("--raid-devices"), Sprintf_d(Len(Members(a)))>>
    \o (IF config.Arrays[a].Spares > 0
        THEN <<Lit("--spare-devices"), Sprintf_d(config.Arrays[a].Spares)>>
        ELSE <<>>)
    \o Members(a)

\* The arguments of /sbin/mdadm for array a.
MdadmArgs(a) ==
    <<Lit("--create"), ArrayDev(a), Lit("--force"), Lit("--run"),
      Lit("--level"), <<"level", a, 0>>,
      Lit("--raid-devices"), Sprintf_d(Len(Members(a)) - config.Arrays[a].Spares)>>
    \o (IF config.Arrays[a].Spares > 0
        THEN <<Lit("--spare-devices"), Sprintf_d(config.Arrays[a].Spares)>>
        ELSE <<>>)
    \o Members(a)

\* One iteration of the loop over the arrays; the device of the array exists
\* once mdadm has succeeded.
Mdadm ==
    /\ pc = "mdadm"
    /\ \E ok \in BOOLEAN :
        /\ log' = Append(log, Cmd("mdadm", "Raids", idx, "/sbin/mdadm", MdadmArgs(idx), ok))
        /\ assembled' = IF ok THEN assembled \cup {idx} ELSE assembled
        /\ IF ~ok
           THEN PhaseReturns("Raids", "ExternalToolError") /\ idx' = 0
           ELSE IF idx < Len(config.Arrays)
                THEN Goto("mdadm") /\ idx' = idx + 1
                ELSE PhaseReturns("Raids", Nil) /\ idx' = 0
    /\ UNCHANGED <<impl, config, run, first, sub, cfErr, entered, mounted, tmpdirs,
                   rootFiles, rootLinks, preset>>

(***************************************************************************)
(* createFilesystems and createFiles                                       *)
(***************************************************************************)
CreateFilesystems ==
    /\ pc = "createFilesystems"
    /\ entered' = Append(entered, "Filesystems")
    /\ IF Len(config.Filesystems) = 0
       THEN PhaseReturns("Filesystems", Nil)
       ELSE Goto("waitFilesystems")
    /\ UNCHANGED <<impl, config, assembled, run, first, idx, sub, cfErr, log, mounted, tmpdirs,
                   rootFiles, rootLinks, preset>>

WaitFilesystems ==
    /\ pc = "waitFilesystems"
    /\ WaitOnDevices("Filesystems", FilesystemDevs, "filesystems", "filesystem")

\* A faulty switch whose default case selects a formatter too.
MkfsForAny(format) ==
    CASE format = "btrfs" -> "/sbin/mkfs.btrfs"
      [] format = "ext4" -> "/sbin/mkfs.ext4"
      [] OTHER -> "/sbin/mkfs"

\* The formatter the switch on fs.Format selects; "" in the default case.
MkfsFor(format) ==
    CASE format = "btrfs" -> "/sbin/mkfs.btrfs"
      [] format = "ext4" -> "/sbin/mkfs.ext4"
      [] OTHER -> ""

\* The formatter's switch for overwriting an existing filesystem; "" in the
\* default case of the switch, where no formatter is run.
ForceFlag(format) ==
    CASE format = "btrfs" -> "--force"
      [] format = "ext4" -> "-F"
      [] OTHER -> ""

\* A faulty argument list with the force flag ahead of the configured options.
MkfsArgsForceFirst(i) ==
    <<Lit(ForceFlag(config.Filesystems[i].Format))>>
    \o [k \in 1..config.Filesystems[i].Options |-> <<"option", i, k>>]
    \o <<FilesystemDevs[i]>>

\* The arguments of the formatter for filesystem i: fs.Options, the force
\* flag, fs.Device.
MkfsArgs(i) ==
    [k \in 1..config.Filesystems[i].Options |-> <<"option", i, k>>]
    \o <<Lit(ForceFlag(config.Filesystems[i].Format))>>
    \o <<FilesystemDevs[i]>>

\* A faulty loop body that formats whether or not fs.Initialize is set.
MkfsAlways(fs) == TRUE

\* if fs.Initialize: only then is a formatter selected and run.
NeedsMkfs(fs) == fs.Initialize

\* The top of the loop body: the formatting of filesystem idx.
Mkfs ==
    /\ pc = "filesystem"
    /\ LET fs == config.Filesystems[idx] IN
        IF ~NeedsMkfs(fs)
        THEN Goto("createFiles") /\ UNCHANGED <<idx, log>>
        ELSE IF MkfsFor(fs.Format) = ""
             THEN PhaseReturns("Filesystems", "UnsupportedFormat") /\ idx' = 0
                  /\ UNCHANGED log
             ELSE \E ok \in BOOLEAN :
                    /\ log' = Append(log, Cmd("mkfs", "Filesystems", idx,
                                              MkfsFor(fs.Format), MkfsArgs(idx), ok))
                    /\ IF ok
                       THEN Goto("createFiles") /\ UNCHANGED idx
                       ELSE PhaseReturns("Filesystems", "ExternalToolError") /\ idx' = 0
    /\ UNCHANGED <<impl, config, assembled, run, first, sub, cfErr, entered, mounted, tmpdirs,
                   rootFiles, rootLinks, preset>>

\* createFiles returned e for filesystem idx: the loop of createFilesystems
\* goes on to the next filesystem, or createFilesystems returns.
CreateFilesReturns(e) ==
    IF e # Nil
    THEN PhaseReturns("Filesystems", e) /\ idx' = 0
    ELSE IF idx < Len(config.Filesystems)
         THEN Goto("filesystem") /\ idx' = idx + 1
         ELSE PhaseReturns("Filesystems", Nil) /\ idx' = 0

\* A faulty createFiles without the early return for an empty file list.
NoFilesNever(fs) == FALSE

\* if len(fs.Files) == 0: createFiles returns nil at once.
NoFiles(fs) == fs.Files = 0

\* The entry of createFiles: nothing to do without files, else the temporary
\* directory is created.
CreateFiles ==
    /\ pc = "createFiles"
    /\ IF NoFiles(config.Filesystems[idx])
       THEN CreateFilesReturns(Nil) /\ UNCHANGED <<log, tmpdirs>>
       ELSE \E ok \in BOOLEAN :
              /\ log' = Append(log, Ev("TempDir", "Filesystems", idx, 0, "", <<>>, ok))
              /\ IF ok
                 THEN Goto("mount") /\ tmpdirs' = tmpdirs \cup {idx} /\ UNCHANGED idx
                 ELSE CreateFilesReturns("IOError") /\ UNCHANGED tmpdirs
    /\ UNCHANGED <<impl, config, assembled, run, first, sub, cfErr, entered, mounted,
                   rootFiles, rootLinks, preset>>

\* A faulty createFiles that defers the unmount before checking the error of
\* the mount.
MountDefersUnmountFirst ==
    /\ pc = "mount"
    /\ \E ok \in BOOLEAN :
        /\ log' = Append(log, Ev("Mount", "Filesystems", idx, 0,
                                 config.Filesystems[idx].Format, <<>>, ok))
        /\ IF ok
           THEN /\ pc' = "writeFile"
                /\ mounted' = mounted \cup {idx}
                /\ sub' = 1
                /\ cfErr' = Nil
           ELSE /\ pc' = "unmount"
                /\ cfErr' = "MountError"
                /\ UNCHANGED <<mounted, sub>>
    /\ UNCHANGED <<impl, config, assembled, run, first, idx, entered, completed, result, err,
                   failedPhase, tmpdirs, rootFiles, rootLinks, preset>>

\* syscall.Mount of the device at the temporary directory.  On failure only
\* the deferred os.Remove is pending.
Mount ==
    /\ pc = "mount"
    /\ \E ok \in BOOLEAN :
        /\ log' = Append(log, Ev("Mount", "Filesystems", idx, 0,
                                 config.Filesystems[idx].Format, <<>>, ok))
        /\ IF ok
           THEN /\ pc' = "writeFile"
                /\ mounted' = mounted \cup {idx}
                /\ sub' = 1
                /\ cfErr' = Nil
           ELSE /\ pc' = "removeTmp"
                /\ cfErr' = "MountError"
                /\ UNCHANGED <<mounted, sub>>
    /\ UNCHANGED <<impl, config, assembled, run, first, idx, entered, completed, result, err, failedPhase,
                   tmpdirs, rootFiles, rootLinks, preset>>

\* A faulty loop over fs.Files whose unmount is not deferred: it is reached
\* only when every file was written.
WriteFileNoUnmount ==
    /\ pc = "writeFile"
    /\ \E ok \in BOOLEAN :
        /\ log' = Append(log, Ev("WriteFile", "Filesystems", idx, sub, "file", <<>>, ok))
        /\ IF ~ok
           THEN pc' = "removeTmp" /\ cfErr' = "IOError" /\ sub' = 0
           ELSE IF sub < config.Filesystems[idx].Files
                THEN pc' = "writeFile" /\ sub' = sub + 1 /\ UNCHANGED cfErr
                ELSE pc' = "unmount" /\ cfErr' = Nil /\ sub' = 0
    /\ UNCHANGED <<impl, config, assembled, run, first, idx, entered, completed, result, err, failedPhase,
                   mounted, tmpdirs, rootFiles, rootLinks, preset>>

\* One iteration of the loop over fs.Files.  The first failing write, or the
\* end of the loop, returns: the deferred unmount runs next.
WriteFile ==
    /\ pc = "writeFile"
    /\ \E ok \in BOOLEAN :
        /\ log' = Append(log, Ev("WriteFile", "Filesystems", idx, sub, "file", <<>>, ok))
        /\ IF ~ok
           THEN pc' = "unmount" /\ cfErr' = "IOError" /\ sub' = 0
           ELSE IF sub < config.Filesystems[idx].Files
                THEN pc' = "writeFile" /\ sub' = sub + 1 /\ UNCHANGED cfErr
                ELSE pc' = "unmount" /\ cfErr' = Nil /\ sub' = 0
    /\ UNCHANGED <<impl, config, assembled, run, first, idx, entered, completed, result, err, failedPhase,
                   mounted, tmpdirs, rootFiles, rootLinks, preset>>

\* A createFiles that returns the error of a failed unmount when its body
\* returned nil.
UnmountFatal ==
    /\ pc = "unmount"
    /\ \E ok \in BOOLEAN :
        /\ log' = Append(log, Ev("Unmount", "Filesystems", idx, 0, "", <<>>, ok))
        /\ mounted' = IF ok THEN mounted \ {idx} ELSE mounted
        /\ cfErr' = IF ~ok /\ cfErr = Nil THEN "UnmountError" ELSE cfErr
    /\ pc' = "removeTmp"
    /\ UNCHANGED <<impl, config, assembled, run, first, idx, sub, entered, completed, result, err,
                   failedPhase, tmpdirs, rootFiles, rootLinks, preset>>

\* A faulty createFiles whose deferred unmount replaces the error of the body
\* with its own.
UnmountOverrides ==
    /\ pc = "unmount"
    /\ \E ok \in BOOLEAN :
        /\ log' = Append(log, Ev("Unmount", "Filesystems", idx, 0, "", <<>>, ok))
        /\ mounted' = IF ok THEN mounted \ {idx} ELSE mounted
        /\ cfErr' = IF ok THEN cfErr ELSE "UnmountError"
    /\ pc' = "removeTmp"
    /\ UNCHANGED <<impl, config, assembled, run, first, idx, sub, entered, completed, result, err,
                   failedPhase, tmpdirs, rootFiles, rootLinks, preset>>

\* A faulty createFiles that never unmounts.
UnmountMissing ==
    /\ pc = "unmount"
    /\ pc' = "removeTmp"
    /\ UNCHANGED <<impl, config, assembled, run, first, idx, sub, cfErr, entered, completed, result, err,
                   failedPhase, log, mounted, tmpdirs, rootFiles, rootLinks, preset>>

\* The deferred, logged syscall.Unmount.  Its error is not used: cfErr stays
\* what the body of createFiles returned.  A failed unmount leaves the
\* filesystem attached.
Unmount ==
    /\ pc = "unmount"
    /\ \E ok \in BOOLEAN :
        /\ log' = Append(log, Ev("Unmount", "Filesystems", idx, 0, "", <<>>, ok))
        /\ mounted' = IF ok THEN mounted \ {idx} ELSE mounted
    /\ pc' = "removeTmp"
    /\ UNCHANGED <<impl, config, assembled, run, first, idx, sub, cfErr, entered, completed, result, err,
                   failedPhase, tmpdirs, rootFiles, rootLinks, preset>>

\* The deferred os.Remove of the temporary directory, whose error is not
\* used either; a directory that is still a mount point cannot be removed.
\* createFiles then returns what its body returned.
RemoveTmp ==
    /\ pc = "removeTmp"
    /\ LET ok == idx \notin mounted IN
        /\ log' = Append(log, Ev("Remove", "Filesystems", idx, 0, "", <<>>, ok))
        /\ tmpdirs' = IF ok THEN tmpdirs \ {idx} ELSE tmpdirs
    /\ CreateFilesReturns(cfErr)
    /\ cfErr' = Nil
    /\ UNCHANGED <<impl, config, assembled, run, first, sub, entered, mounted, rootFiles, rootLinks, preset>>

(***************************************************************************)
(* createUnits (storage.Run only)                                          *)
(***************************************************************************)
\* A regular file under the target root: the file of systemd unit `unit`
\* (kind "unit"), its drop-in number `dropin` (kind "dropin"), or the file of
\* networkd unit `unit` (kind "networkd").
RootFile(kind, unit, dropin) == [kind |-> kind, unit |-> unit, dropin |-> dropin]

\* DestDir.WriteFile: the file is created at its path under the target root,
\* or replaced when it is there already.
WriteFileTo(files, f) == files \cup {f}

\* createUnits is past systemd unit idx: the next unit, the networkd units,
\* or the return of createUnits.
AfterSystemdUnit ==
    IF idx < Len(config.SystemdUnits)
    THEN Goto("writeSystemdUnit") /\ idx' = idx + 1 /\ sub' = 1
    ELSE IF Len(config.NetworkdUnits) > 0
         THEN Goto("writeNetworkdUnit") /\ idx' = 1 /\ sub' = 0
         ELSE PhaseReturns("Units", Nil) /\ idx' = 0 /\ sub' = 0

CreateUnits ==
    /\ pc = "createUnits"
    /\ entered' = Append(entered, "Units")
    /\ IF Len(config.SystemdUnits) > 0
       THEN Goto("writeSystemdUnit") /\ idx' = 1 /\ sub' = 1
       ELSE IF Len(config.NetworkdUnits) > 0
            THEN Goto("writeNetworkdUnit") /\ idx' = 1 /\ sub' = 0
            ELSE PhaseReturns("Units", Nil) /\ idx' = 0 /\ sub' = 0
    /\ UNCHANGED <<impl, config, assembled, run, first, cfErr, log, mounted, tmpdirs,
                   rootFiles, rootLinks, preset>>

\* One iteration of the loop over unit.DropIns in writeSystemdUnit.
WriteDropin ==
    /\ pc = "writeSystemdUnit"
    /\ sub <= Len(config.SystemdUnits[idx].DropIns)
    /\ IF ~config.SystemdUnits[idx].DropIns[sub]
       THEN Goto("writeSystemdUnit") /\ sub' = sub + 1 /\ UNCHANGED <<idx, log, rootFiles>>
       ELSE \E ok \in BOOLEAN :
              /\ log' = Append(log, Ev("WriteFile", "Units", idx, sub, "dropin", <<>>, ok))
              /\ IF ok
                 THEN /\ Goto("writeSystemdUnit")
                      /\ sub' = sub + 1
                      /\ rootFiles' = WriteFileTo(rootFiles, RootFile("dropin", idx, sub))
                      /\ UNCHANGED idx
                 ELSE /\ PhaseReturns("Units", "IOError")
                      /\ idx' = 0 /\ sub' = 0
                      /\ UNCHANGED rootFiles
    /\ UNCHANGED <<impl, config, assembled, run, first, cfErr, entered, mounted, tmpdirs, rootLinks, preset>>

\* A faulty writeSystemdUnit without the check for empty contents.
WriteUnitAlways ==
    /\ pc = "writeSystemdUnit"
    /\ sub > Len(config.SystemdUnits[idx].DropIns)
    /\ \E ok \in BOOLEAN :
        /\ log' = Append(log, Ev("WriteFile", "Units", idx, 0, "unit", <<>>, ok))
        /\ IF ok
           THEN /\ Goto("enableUnit")
                /\ rootFiles' = WriteFileTo(rootFiles, RootFile("unit", idx, 0))
                /\ UNCHANGED <<idx, sub>>
           ELSE /\ PhaseReturns("Units", "IOError")
                /\ idx' = 0 /\ sub' = 0
                /\ UNCHANGED rootFiles
    /\ UNCHANGED <<impl, config, assembled, run, first, cfErr, entered, mounted, tmpdirs,
                   rootLinks, preset>>

\* The end of writeSystemdUnit: the unit's own file, unless it is empty.
WriteUnit ==
    /\ pc = "writeSystemdUnit"
    /\ sub > Len(config.SystemdUnits[idx].DropIns)
    /\ IF ~config.SystemdUnits[idx].Contents
       THEN Goto("enableUnit") /\ UNCHANGED <<idx, sub, log, rootFiles>>
       ELSE \E ok \in BOOLEAN :
              /\ log' = Append(log, Ev("WriteFile", "Units", idx, 0, "unit", <<>>, ok))
              /\ IF ok
                 THEN /\ Goto("enableUnit")
                      /\ rootFiles' = WriteFileTo(rootFiles, RootFile("unit", idx, 0))
                      /\ UNCHANGED <<idx, sub>>
                 ELSE /\ PhaseReturns("Units", "IOError")
                      /\ idx' = 0 /\ sub' = 0
                      /\ UNCHANGED rootFiles
    /\ UNCHANGED <<impl, config, assembled, run, first, cfErr, entered, mounted, tmpdirs, rootLinks, preset>>

\* if unit.Enable: EnableUnit appends "enable <name>" to the preset file.
EnableUnit ==
    /\ pc = "enableUnit"
    /\ IF ~config.SystemdUnits[idx].Enable
       THEN Goto("maskUnit") /\ UNCHANGED <<idx, sub, log, preset>>
       ELSE \E ok \in BOOLEAN :
              /\ log' = Append(log, Ev("EnableUnit", "Units", idx, 0, "", <<>>, ok))
              /\ IF ok
                 THEN /\ Goto("maskUnit")
                      /\ preset' = Append(preset, idx)
                      /\ UNCHANGED <<idx, sub>>
                 ELSE /\ PhaseReturns("Units", "IOError")
                      /\ idx' = 0 /\ sub' = 0
                      /\ UNCHANGED preset
    /\ UNCHANGED <<impl, config, assembled, run, first, cfErr, entered, mounted, tmpdirs, rootFiles, rootLinks>>

\* Something is at the path of systemd unit u under the target root: its
\* unit file or a link.
PathExists(u) == RootFile("unit", u, 0) \in rootFiles \/ u \in rootLinks

\* if unit.Mask: MaskUnit symlinks the unit's path to /dev/null.  os.Symlink
\* fails with EEXIST when the path exists already, which the event records.
MaskUnit ==
    /\ pc = "maskUnit"
    /\ IF ~config.SystemdUnits[idx].Mask
       THEN AfterSystemdUnit /\ UNCHANGED <<log, rootLinks>>
       ELSE \E ok \in IF PathExists(idx) THEN {FALSE} ELSE BOOLEAN :
              /\ log' = Append(log, Ev("MaskUnit", "Units", idx, 0,
                                       IF PathExists(idx) THEN "EEXIST" ELSE "", <<>>, ok))
              /\ IF ok
                 THEN AfterSystemdUnit /\ rootLinks' = rootLinks \cup {idx}
                 ELSE /\ PhaseReturns("Units", "IOError")
                      /\ idx' = 0 /\ sub' = 0
                      /\ UNCHANGED rootLinks
    /\ UNCHANGED <<impl, config, assembled, run, first, cfErr, entered, mounted, tmpdirs, rootFiles, preset>>

\* One iteration of the loop over the networkd units.
WriteNetworkdUnit ==
    /\ pc = "writeNetworkdUnit"
    /\ \E ok \in IF config.NetworkdUnits[idx].Contents THEN BOOLEAN ELSE {TRUE} :
        /\ log' = IF config.NetworkdUnits[idx].Contents
                  THEN Append(log, Ev("WriteFile", "Units", idx, 0, "networkd", <<>>, ok))
                  ELSE log
        /\ rootFiles' = IF config.NetworkdUnits[idx].Contents /\ ok
                        THEN WriteFileTo(rootFiles, RootFile("networkd", idx, 0))
                        ELSE rootFiles
        /\ IF ~ok
           THEN PhaseReturns("Units", "IOError") /\ idx' = 0
           ELSE IF idx < Len(config.NetworkdUnits)
                THEN Goto("writeNetworkdUnit") /\ idx' = idx + 1
                ELSE PhaseReturns("Units", Nil) /\ idx' = 0
    /\ UNCHANGED <<impl, config, assembled, run, first, sub, cfErr, entered, mounted, tmpdirs, rootLinks, preset>>

Next ==
    \/ CreatePartitions
    \/ WaitDisks
    \/ PartitionDisk
    \/ CreateRaids
    \/ WaitRaids
    \/ Mdadm
    \/ CreateFilesystems
    \/ WaitFilesystems
    \/ Mkfs
    \/ CreateFiles
    \/ Mount
    \/ WriteFile
    \/ Unmount
    \/ RemoveTmp
    \/ CreateUnits
    \/ WriteDropin
    \/ WriteUnit
    \/ EnableUnit
    \/ MaskUnit
    \/ WriteNetworkdUnit

TypeOK ==
    /\ impl \in Impls
    /\ result \in {"none", "success", "failure"}
    /\ (pc = "done") = (result # "none")
    /\ mounted \subseteq 1..Len(config.Filesystems)
    /\ tmpdirs \subseteq 1..Len(config.Filesystems)

Spec == Init /\ [][Next]_vars

(***************************************************************************)
(* The unit phase run a second time.  After storage.Run has returned true, *)
(* createUnits is called again with the same configuration on the target   *)
(* root the first run left.                                                *)
(***************************************************************************)
Rerun ==
    /\ run = 1
    /\ impl = "exec"
    /\ pc = "done"
    /\ result = "success"
    /\ run' = 2
    /\ first' = rootFiles
    /\ pc' = "createUnits"
    /\ result' = "none"
    /\ entered' = SubSeq(entered, 1, 3)
    /\ completed' = SubSeq(completed, 1, 3)
    /\ UNCHANGED <<impl, config, assembled, idx, sub, cfErr, err, failedPhase, log,
                   mounted, tmpdirs, rootFiles, rootLinks, preset>>

NextRerun == Next \/ Rerun

SpecRerun == Init /\ [][NextRerun]_vars
(***************************************************************************)
(* Properties                                                              *)
(***************************************************************************)
LogIdx == 1..Len(log)

IsPrefix(s, t) == Len(s) <= Len(t) /\ \A i \in 1..Len(s) : s[i] = t[i]

\* Control is inside createFiles for filesystem k.
InCreateFiles(k) ==
    idx = k /\ pc \in {"createFiles", "mount", "writeFile", "unmount", "removeTmp"}

\* The device list the function of `phase` has to wait for.
PhaseDevs(phase) ==
    CASE phase = "Partitions" -> DiskDevs
      [] phase = "Raids" -> ArrayDevs
      [] phase = "Filesystems" -> FilesystemDevs

\* C1: the phases are entered at most once each and in the order Partitions,
\* Raids, Filesystems, Units; every call on a collaborator belongs to a phase
\* that was entered, and the calls of a phase all precede those of the next;
\* once a phase has returned an error Run has returned failure, the failed
\* phase is the last one entered and no call of a later phase was made.
C1_PhasesInOrderFailFast ==
    /\ IsPrefix(entered, PhaseOrder)
    /\ \A i \in LogIdx : \E n \in 1..Len(entered) : entered[n] = log[i].phase
    /\ \A i, j \in LogIdx : i < j => PhaseNo(log[i].phase) <= PhaseNo(log[j].phase)
    /\ err # Nil =>
        /\ pc = "done"
        /\ result = "failure"
        /\ entered # <<>>
        /\ failedPhase = entered[Len(entered)]
        /\ \A i \in LogIdx : PhaseNo(log[i].phase) <= PhaseNo(failedPhase)
    /\ result = "failure" => err # Nil

\* C1's case: the RAID phase failed after the partition phase had committed
\* a table, with filesystems and units still to be processed.
C1_Witness ==
    /\ impl = "exec"
    /\ failedPhase = "Raids"
    /\ result = "failure"
    /\ \E i \in LogIdx : log[i].op = "Commit" /\ log[i].ok
    /\ Len(config.Filesystems) > 0
    /\ Len(config.SystemdUnits) > 0

\* C2: in the partition, RAID and filesystem phases every call other than the
\* device wait is preceded by a successful wait of the same phase for exactly
\* the devices of that phase, and a failed wait is the last call of the run:
\* Run has returned failure with the timeout as its error.
C2_WaitBeforeMutation ==
    /\ \A i \in LogIdx :
        (log[i].op # "WaitOnDevices" /\ log[i].phase # "Units") =>
            \E j \in 1..(i - 1) :
                /\ log[j].op = "WaitOnDevices"
                /\ log[j].phase = log[i].phase
                /\ log[j].ok
    /\ \A j \in LogIdx :
        log[j].op = "WaitOnDevices" =>
            /\ log[j].devs = PhaseDevs(log[j].phase)
            /\ Len(log[j].devs) > 0
            /\ ~log[j].ok =>
                /\ j = Len(log)
                /\ pc = "done"
                /\ result = "failure"
                /\ err = "DeviceTimeout"

\* C2's case: the partition phase waited and then committed, and the wait of
\* the filesystem phase failed with units still to be written.
C2_Witness ==
    /\ impl = "exec"
    /\ \E i, j \in LogIdx :
        /\ i < j
        /\ log[i].op = "WaitOnDevices" /\ log[i].phase = "Partitions" /\ log[i].ok
        /\ log[j].op = "Commit" /\ log[j].ok
    /\ log[Len(log)].op = "WaitOnDevices"
    /\ log[Len(log)].phase = "Filesystems"
    /\ ~log[Len(log)].ok
    /\ Len(config.SystemdUnits) > 0

\* C3: every successful mount is followed, before createFiles returns, by the
\* file writes of that filesystem only, then one unmount attempt and then the
\* attempt to remove the temporary directory; when the unmount succeeds the
\* filesystem is detached and the directory is gone.  In particular a failed
\* file write is followed at once by the unmount attempt and the removal.
C3_UnmountAfterMount ==
    /\ \A m \in LogIdx :
        (log[m].op = "Mount" /\ log[m].ok /\ ~InCreateFiles(log[m].ent)) =>
            \E u \in (m + 1)..(Len(log) - 1) :
                /\ log[u].op = "Unmount" /\ log[u].ent = log[m].ent
                /\ log[u + 1].op = "Remove" /\ log[u + 1].ent = log[m].ent
                /\ \A w \in (m + 1)..(u - 1) :
                    log[w].op = "WriteFile" /\ log[w].ent = log[m].ent
                /\ log[u].ok =>
                    /\ log[u + 1].ok
                    /\ log[m].ent \notin mounted
                    /\ log[m].ent \notin tmpdirs
    /\ \A w \in LogIdx :
        (log[w].op = "WriteFile" /\ log[w].phase = "Filesystems" /\ ~log[w].ok) =>
            /\ w = Len(log) => (pc = "unmount" /\ idx = log[w].ent)
            /\ w < Len(log) => (log[w + 1].op = "Unmount" /\ log[w + 1].ent = log[w].ent)
            /\ w + 1 = Len(log) => (pc = "removeTmp" /\ idx = log[w].ent)
            /\ w + 1 < Len(log) => (log[w + 2].op = "Remove" /\ log[w + 2].ent = log[w].ent)
            /\ w + 2 <= Len(log) => (w + 2 = Len(log) /\ pc = "done" /\ err = "IOError")

\* C3's case: the write of the middle file of three failed, the filesystem
\* was unmounted, the directory removed and createFiles has returned.
C3_Witness ==
    /\ pc = "done"
    /\ \E w \in LogIdx :
        /\ log[w].op = "WriteFile" /\ log[w].phase = "Filesystems" /\ ~log[w].ok
        /\ log[w].item = 2
        /\ config.Filesystems[log[w].ent].Files = 3
        /\ w + 2 = Len(log)
        /\ log[w + 1].op = "Unmount" /\ log[w + 1].ok
        /\ log[w + 2].op = "Remove" /\ log[w + 2].ok
    /\ mounted = {}
    /\ tmpdirs = {}

\* The function of phase p has returned nil.
Completed(p) == \E n \in 1..Len(completed) : completed[n] = p

\* An unmount attempt for filesystem k has failed.
UnmountFailed(k) ==
    \E u \in LogIdx : log[u].op = "Unmount" /\ log[u].ent = k /\ ~log[u].ok

\* C4 as stated: at most one filesystem is mounted at a temporary mount point
\* at any time, and none outside the createFiles call that mounted it.
C4_OneMountNoneLeft ==
    /\ Cardinality(mounted) <= 1
    /\ \A k \in mounted : InCreateFiles(k)

\* C4, amended: a temporary mount that is attached outside the createFiles
\* call that made it is one whose unmount attempt failed; at most one attached
\* mount has no failed unmount attempt, so the number of attached mounts is at
\* most one plus the number of failed unmount attempts; as long as no unmount
\* has failed the claim holds as stated.
C4_MountScopedUnlessUnmountFailed ==
    /\ \A k \in mounted : InCreateFiles(k) \/ UnmountFailed(k)
    /\ Cardinality({k \in mounted : ~UnmountFailed(k)}) <= 1
    /\ Cardinality(mounted)
         <= 1 + Cardinality({k \in 1..Len(config.Filesystems) : UnmountFailed(k)})
    /\ (\A k \in 1..Len(config.Filesystems) : ~UnmountFailed(k)) => C4_OneMountNoneLeft

\* C4's case: two filesystems are attached at once, the first left behind by
\* a failed unmount while the second is being populated.
C4_Witness ==
    /\ Cardinality(mounted) = 2
    /\ pc = "writeFile"
    /\ \E k \in mounted : k # idx /\ UnmountFailed(k)

\* A disk with wipeTable = false and no partitions.
NoopDisk(d) == ~config.Disks[d].WipeTable /\ config.Disks[d].Partitions = 0

\* C5 as stated: no partition-table call (Begin, WipeTable, CreatePartition,
\* Commit) is made for a disk with wipeTable = false and no partitions.
C5_NoopDiskUntouched ==
    \A i \in LogIdx :
        log[i].op \in {"Begin", "WipeTable", "CreatePartition", "Commit"} =>
            ~NoopDisk(log[i].ent)

\* C5, amended: for a disk with wipeTable = false and no partitions neither
\* WipeTable nor CreatePartition is called, but the loop does not skip it:
\* Begin is called at most once and is followed at once by Commit, and once
\* createPartitions has returned nil both were called for it.
C5_NoopDiskBeginCommitOnly ==
    \A d \in 1..Len(config.Disks) :
        NoopDisk(d) =>
            /\ \A i \in LogIdx :
                log[i].ent = d => log[i].op \notin {"WipeTable", "CreatePartition"}
            /\ \A i \in LogIdx :
                (log[i].op = "Begin" /\ log[i].ent = d) =>
                    /\ i < Len(log)
                    /\ log[i + 1].op = "Commit" /\ log[i + 1].ent = d
                    /\ \A j \in LogIdx : (log[j].op = "Begin" /\ log[j].ent = d) => j = i
            /\ Completed("Partitions") =>
                \E i \in LogIdx : log[i].op = "Begin" /\ log[i].ent = d

\* C5's case: createPartitions has returned nil after Begin and a successful
\* Commit on a disk with wipeTable = false and no partitions.
C5_Witness ==
    /\ Completed("Partitions")
    /\ \E d \in 1..Len(config.Disks) :
        /\ NoopDisk(d)
        /\ \E i \in LogIdx :
            /\ log[i].op = "Begin" /\ log[i].ent = d
            /\ log[i + 1].op = "Commit" /\ log[i + 1].ent = d /\ log[i + 1].ok

\* The format identifiers the specification calls supported.
Supported == {"btrfs", "ext4"}

\* Filesystem k asks to be formatted with an unsupported format.
BadFormat(k) ==
    config.Filesystems[k].Initialize /\ config.Filesystems[k].Format \notin Supported

\* The calls of createFilesystems on filesystem k at positions i of the log.
FsCall(i, k, op) ==
    log[i].phase = "Filesystems" /\ log[i].op = op /\ log[i].ent = k

C6_Inv ==
    \A k \in 1..Len(config.Filesystems) :
        BadFormat(k) =>
            /\ result # "success"
            /\ ~Completed("Filesystems")
            /\ \A i \in LogIdx :
                (log[i].phase = "Filesystems" /\ log[i].op # "WaitOnDevices") =>
                    log[i].ent < k
            /\ k \notin mounted

C6_Step ==
    (pc = "filesystem" /\ BadFormat(idx)) =>
        /\ pc' = "done"
        /\ result' = "failure"
        /\ err' = "UnsupportedFormat"
        /\ failedPhase' = "Filesystems"
        /\ log' = log
        /\ mounted' = mounted

CreateFilesReturnedNil(k) ==
    \/ Completed("Filesystems")
    \/ /\ pc \in {"filesystem", "createFiles", "mount", "writeFile", "unmount", "removeTmp"}
       /\ idx > k

\* C7: no formatter is ever run for a filesystem with initialize = false; if
\* it declares files, then once createFiles has returned nil for it the log
\* holds, in a row, its temporary directory, its successful mount, the
\* successful write of each declared file in order, its unmount attempt and
\* the removal of the directory.
C7_NoMkfsButFilesWritten ==
    \A k \in 1..Len(config.Filesystems) :
        ~config.Filesystems[k].Initialize =>
            /\ \A i \in LogIdx : ~FsCall(i, k, "mkfs")
            /\ (config.Filesystems[k].Files > 0 /\ CreateFilesReturnedNil(k)) =>
                \E t \in LogIdx :
                    LET n == config.Filesystems[k].Files IN
                    /\ t + n + 3 <= Len(log)
                    /\ FsCall(t, k, "TempDir") /\ log[t].ok
                    /\ FsCall(t + 1, k, "Mount") /\ log[t + 1].ok
                    /\ \A f \in 1..n :
                        /\ FsCall(t + 1 + f, k, "WriteFile")
                        /\ log[t + 1 + f].item = f
                        /\ log[t + 1 + f].ok
                    /\ FsCall(t + n + 2, k, "Unmount")
                    /\ FsCall(t + n + 3, k, "Remove")

\* C7's case: Run has succeeded on a configuration with a filesystem that is
\* not initialized and declares two files, both written and then unmounted.
C7_Witness ==
    /\ result = "success"
    /\ \E k \in 1..Len(config.Filesystems) :
        /\ ~config.Filesystems[k].Initialize
        /\ config.Filesystems[k].Files = 2
        /\ \E i \in LogIdx : FsCall(i, k, "WriteFile") /\ log[i].item = 2 /\ log[i].ok
        /\ \E i \in LogIdx : FsCall(i, k, "Unmount") /\ log[i].ok
        /\ k \notin mounted

\* C8: for a filesystem without declared files no temporary directory is
\* created, nothing is mounted, written or unmounted and no directory is
\* removed, whether or not it is initialized.
C8_NoFilesNoMount ==
    \A k \in 1..Len(config.Filesystems) :
        config.Filesystems[k].Files = 0 =>
            /\ \A i \in LogIdx :
                (log[i].phase = "Filesystems" /\ log[i].ent = k) => log[i].op = "mkfs"
            /\ k \notin mounted
            /\ k \notin tmpdirs

\* C8's case: createFilesystems has returned nil after processing two
\* filesystems without files, one formatted and one not.
C8_Witness ==
    /\ Completed("Filesystems")
    /\ \E k, l \in 1..Len(config.Filesystems) :
        /\ config.Filesystems[k].Files = 0
        /\ config.Filesystems[k].Initialize
        /\ \E i \in LogIdx : FsCall(i, k, "mkfs") /\ log[i].ok
        /\ config.Filesystems[l].Files = 0
        /\ ~config.Filesystems[l].Initialize

\* C9: when Run reports success each of the four phases (partitions, RAID,
\* filesystems, units) has returned nil, in that order; Run reports failure
\* exactly when a phase returned an error.
C9_SuccessMeansAllFourPhases ==
    /\ result = "success" => completed = PhaseOrder
    /\ pc = "done" => ((result = "failure") <=> (err # Nil))

\* C9 holds of storage.Run, which calls createUnits; stage.Run returns true
\* after the filesystem phase.
C9_ExecRunAllFourPhases ==
    /\ result = "success" =>
        completed = (IF impl = "exec" THEN PhaseOrder ELSE SubSeq(PhaseOrder, 1, 3))
    /\ pc = "done" => ((result = "failure") <=> (err # Nil))

\* C10 as stated: after a failed unmount nothing but the removal of the
\* temporary directory follows, and Run reports failure.
C10_UnmountFailureFatal ==
    \A u \in LogIdx :
        (log[u].op = "Unmount" /\ ~log[u].ok) =>
            \/ u = Len(log) /\ pc = "removeTmp"
            \/ /\ u + 1 = Len(log)
               /\ log[u + 1].op = "Remove"
               /\ pc = "done"
               /\ result = "failure"

\* C10, amended: a failed unmount is only logged.  The filesystem stays
\* attached, so the removal of its directory fails too, and createFiles
\* returns what its body returned: when the last file write had failed Run
\* fails with that write error, and when every file was written the run goes
\* on (Run fails later only for an error of its own, such as an unsupported
\* format of a later filesystem met without a further call).
C10_UnmountFailureOnlyLogged ==
    \A u \in LogIdx :
        (log[u].op = "Unmount" /\ ~log[u].ok) =>
            /\ log[u].ent \in mounted
            /\ u = Len(log) => (pc = "removeTmp" /\ result = "none")
            /\ u < Len(log) =>
                (log[u + 1].op = "Remove" /\ log[u + 1].ent = log[u].ent /\ ~log[u + 1].ok)
            /\ (u < Len(log) /\ ~log[u - 1].ok) =>
                /\ u + 1 = Len(log)
                /\ pc = "done"
                /\ result = "failure"
                /\ err = "IOError"
            /\ (u + 1 = Len(log) /\ log[u - 1].ok /\ err # Nil) =>
                /\ err = "UnsupportedFormat"
                /\ \E k \in (log[u].ent + 1)..Len(config.Filesystems) : BadFormat(k)

\* C10's case: the unmount of the first filesystem failed after its file was
\* written, a later filesystem was mounted all the same, the unit phase
\* completed and Run reported success.
C10_Witness ==
    /\ result = "success"
    /\ Completed("Units")
    /\ \E u \in LogIdx :
        /\ log[u].op = "Unmount" /\ ~log[u].ok
        /\ \E m \in (u + 1)..Len(log) :
            log[m].op = "Mount" /\ log[m].ent > log[u].ent /\ log[m].ok


\* C11: when a file write of createFiles failed and the unmount attempt that
\* follows failed too, the error createFiles is about to return, and the
\* error Run reports once createFiles has returned, is the error of the file
\* write: the run fails in the filesystem phase with that error and never
\* with an error of the unmount.
C11_WriteErrorSurvivesUnmountFailure ==
    /\ \A w \in 1..(Len(log) - 1) :
        (/\ log[w].op = "WriteFile" /\ log[w].phase = "Filesystems" /\ ~log[w].ok
         /\ log[w + 1].op = "Unmount" /\ ~log[w + 1].ok) =>
            /\ log[w + 1].ent = log[w].ent
            /\ w + 1 = Len(log) =>
                (pc = "removeTmp" /\ cfErr = "IOError" /\ result = "none")
            /\ w + 1 < Len(log) =>
                /\ w + 2 = Len(log)
                /\ log[w + 2].op = "Remove"
                /\ pc = "done"
                /\ result = "failure"
                /\ failedPhase = "Filesystems"
                /\ err = "IOError"
    /\ cfErr # "UnmountError"
    /\ err # "UnmountError"

\* C11's case: the second file write failed, the unmount failed as well, and
\* Run has returned failure.
C11_Witness ==
    /\ pc = "done"
    /\ result = "failure"
    /\ Len(log) >= 3
    /\ log[Len(log) - 2].op = "WriteFile" /\ ~log[Len(log) - 2].ok
    /\ log[Len(log) - 2].item = 2
    /\ log[Len(log) - 1].op = "Unmount" /\ ~log[Len(log) - 1].ok
    /\ log[Len(log)].op = "Remove"

\* The configuration declares nothing at all.
EmptyConfig ==
    /\ config.Disks = <<>>
    /\ config.Arrays = <<>>
    /\ config.Filesystems = <<>>
    /\ config.SystemdUnits = <<>>
    /\ config.NetworkdUnits = <<>>

\* C12: on a configuration without disks, arrays, filesystems and units Run
\* never makes a call on a collaborator (no device wait, partition-table
\* call, mdadm, mkfs, temporary directory, mount, unmount or write), changes
\* nothing under the target root, never fails, and has returned success when
\* it is done, every phase it calls having returned nil.
C12_EmptyConfigNoop ==
    EmptyConfig =>
        /\ log = <<>>
        /\ mounted = {} /\ tmpdirs = {}
        /\ rootFiles = {} /\ rootLinks = {} /\ preset = <<>>
        /\ result # "failure" /\ err = Nil
        /\ completed = entered
        /\ pc = "done" =>
            /\ result = "success"
            /\ completed = (IF impl = "exec" THEN PhaseOrder ELSE SubSeq(PhaseOrder, 1, 3))

\* C12's case: storage.Run has returned success on the empty configuration
\* after calling its four phase functions.
C12_Witness ==
    /\ EmptyConfig
    /\ impl = "exec"
    /\ result = "success"
    /\ entered = PhaseOrder

\* C13: every invocation of /sbin/mdadm, for an array of n member devices of
\* which s are spares, asks for n - s raid-devices; its arguments hold
\* --spare-devices, followed by s, exactly when s > 0; and the last n
\* arguments, after all the options, are the member devices in the order of
\* the configuration.
C13_MdadmArgs ==
    \A i \in LogIdx :
        log[i].op = "mdadm" =>
            LET a == log[i].ent
                n == config.Arrays[a].Devices
                s == config.Arrays[a].Spares
                args == log[i].args
                opts == Len(args) - n
            IN  /\ log[i].arg = "/sbin/mdadm"
                /\ opts = IF s > 0 THEN 10 ELSE 8
                /\ args[1] = Lit("--create") /\ args[2] = ArrayDev(a)
                /\ args[7] = Lit("--raid-devices")
                /\ args[8] = Sprintf_d(n - s)
                /\ s > 0 => (args[9] = Lit("--spare-devices") /\ args[10] = Sprintf_d(s))
                /\ s = 0 => \A k \in 1..Len(args) : args[k] # Lit("--spare-devices")
                /\ \A k \in 1..n : args[opts + k] = Members(a)[k]
                /\ \A k \in 1..opts : \A m \in 1..n : args[k] # Members(a)[m]

\* C13's case: mdadm has assembled an array of three member devices of which
\* one is a spare, asking for 2 raid-devices and 1 spare-device.
C13_Witness ==
    \E i \in LogIdx :
        /\ log[i].op = "mdadm" /\ log[i].ok
        /\ config.Arrays[log[i].ent].Devices = 3
        /\ config.Arrays[log[i].ent].Spares = 1
        /\ log[i].args[8] = Sprintf_d(2)
        /\ log[i].args[10] = Sprintf_d(1)
        /\ Len(log[i].args) = 13

\* Control of createUnits is past systemd unit u: a later unit is being
\* processed, or createUnits has returned nil.
PastUnit(u) ==
    \/ Completed("Units")
    \/ pc = "writeNetworkdUnit"
    \/ pc \in {"writeSystemdUnit", "enableUnit", "maskUnit"} /\ idx > u

\* C14: the masking of a systemd unit never fails because something is
\* already at the unit's path, whether the contents of the unit are empty or
\* not, and every unit with mask set that the Unit Writer has completed has a
\* link to /dev/null at its path.
C14_MaskWhateverContents ==
    /\ \A i \in LogIdx : log[i].op = "MaskUnit" => log[i].arg # "EEXIST"
    /\ \A u \in 1..Len(config.SystemdUnits) :
        (config.SystemdUnits[u].Mask /\ PastUnit(u)) => u \in rootLinks

\* What holds of the code instead: a unit with mask set is completed, and
\* linked, only when its contents are empty; with non-empty contents the
\* unit file is written and the masking fails on it, which fails the run.
C14_MaskOnlyEmptyContents ==
    /\ \A u \in 1..Len(config.SystemdUnits) :
        (config.SystemdUnits[u].Mask /\ PastUnit(u)) =>
            (u \in rootLinks /\ ~config.SystemdUnits[u].Contents)
    /\ \A i \in LogIdx :
        (log[i].op = "MaskUnit" /\ config.SystemdUnits[log[i].ent].Contents) =>
            /\ ~log[i].ok
            /\ log[i].arg = "EEXIST"
            /\ i = Len(log)
            /\ result = "failure"

\* C15: when the unit phase is run a second time on what the first run left,
\* no call of it fails because of what is already there, and the unit files
\* and drop-in files under the target root stay what the first run left,
\* whatever the systemd units ask for (enable and mask included).
C15_SecondRunIdempotent ==
    run = 2 =>
        /\ \A i \in LogIdx : log[i].op = "MaskUnit" => log[i].arg # "EEXIST"
        /\ rootFiles = first

\* What holds of the code instead: the second run leaves the unit files and
\* drop-in files as they were, and it fails on the link of the first unit
\* with mask set, and only there, for a reason other than the environment.
C15_SecondRunFailsOnMask ==
    run = 2 =>
        /\ rootFiles = first
        /\ \A i \in LogIdx :
            (log[i].op = "MaskUnit" /\ log[i].arg = "EEXIST") =>
                /\ log[i].ent \in rootLinks
                /\ i = Len(log)
                /\ result = "failure"
        /\ (\E u \in 1..Len(config.SystemdUnits) : config.SystemdUnits[u].Mask) =>
            result # "success"

\* The contents of the file f of the configuration are non-empty.
HasContents(f) ==
    CASE f.kind = "unit" -> config.SystemdUnits[f.unit].Contents
      [] f.kind = "dropin" -> config.SystemdUnits[f.unit].DropIns[f.dropin]
      [] f.kind = "networkd" -> config.NetworkdUnits[f.unit].Contents

\* C16: the Unit Writer calls WriteFile only for unit files and drop-in files
\* whose contents are non-empty, and no other file is under the target root;
\* and once it is past a systemd unit with empty contents, each of the unit's
\* non-empty drop-ins was written, the unit was enabled if enable is set, and
\* was masked if mask is set.
C16_EmptyContentsNotWritten ==
    /\ \A i \in LogIdx :
        (log[i].phase = "Units" /\ log[i].op = "WriteFile") =>
            HasContents(RootFile(log[i].arg, log[i].ent, log[i].item))
    /\ \A f \in rootFiles : HasContents(f)
    /\ \A u \in 1..Len(config.SystemdUnits) :
        (~config.SystemdUnits[u].Contents /\ PastUnit(u)) =>
            /\ RootFile("unit", u, 0) \notin rootFiles
            /\ \A k \in 1..Len(config.SystemdUnits[u].DropIns) :
                config.SystemdUnits[u].DropIns[k] <=> RootFile("dropin", u, k) \in rootFiles
            /\ config.SystemdUnits[u].Enable <=>
                \E i \in LogIdx : log[i].op = "EnableUnit" /\ log[i].ent = u /\ log[i].ok
            /\ config.SystemdUnits[u].Mask <=> u \in rootLinks

\* C16's case: createUnits has returned nil for a masked unit with empty
\* contents, an empty drop-in and a non-empty one: the unit is masked and only
\* the non-empty drop-in is under the target root.
C16_Witness ==
    /\ Completed("Units")
    /\ \E u \in 1..Len(config.SystemdUnits) :
        /\ ~config.SystemdUnits[u].Contents
        /\ config.SystemdUnits[u].Mask
        /\ config.SystemdUnits[u].DropIns = <<FALSE, TRUE>>
        /\ rootFiles = {RootFile("dropin", u, 2)}
        /\ u \in rootLinks

\* The partition-table calls.
SgdiskCalls == {"Begin", "WipeTable", "CreatePartition", "Commit"}

\* C17: the partition-table calls are made disk by disk in the order of the
\* configuration.  The calls for a disk end with its one Commit, which is
\* preceded by one CreatePartition for each declared partition, in order, these
\* by WipeTable exactly when the disk asks for it, and that by the opening of
\* the disk, which follows at once the successful Commit of the disk before
\* it.  A failed Commit is the last call of the run, which fails with the
\* commit error: the disks after it are not touched, and nothing further is
\* done to the disks committed before it.
C17_DiskByDiskCommit ==
    /\ \A i, j \in LogIdx :
        (i < j /\ log[i].op \in SgdiskCalls /\ log[j].op \in SgdiskCalls) =>
            log[i].ent <= log[j].ent
    /\ \A i \in LogIdx :
        (log[i].op \in SgdiskCalls /\ log[i].op # "Commit") =>
            /\ i < Len(log)
            /\ log[i + 1].op \in SgdiskCalls
            /\ log[i + 1].ent = log[i].ent
    /\ \A c \in LogIdx :
        log[c].op = "Commit" =>
            LET d == log[c].ent
                n == config.Disks[d].Partitions
                w == Flag(config.Disks[d].WipeTable)
                b == c - n - w - 1
            IN  /\ b >= 2
                /\ log[b].op = "Begin" /\ log[b].ent = d
                /\ w = 1 => (log[b + 1].op = "WipeTable" /\ log[b + 1].ent = d)
                /\ \A k \in 1..n :
                    /\ log[b + w + k].op = "CreatePartition"
                    /\ log[b + w + k].ent = d
                    /\ log[b + w + k].item = k
                /\ IF d = 1
                   THEN log[b - 1].op = "WaitOnDevices"
                   ELSE log[b - 1].op = "Commit" /\ log[b - 1].ent = d - 1 /\ log[b - 1].ok
                /\ \A e \in LogIdx : (log[e].op = "Commit" /\ log[e].ent = d) => e = c
                /\ ~log[c].ok =>
                    /\ c = Len(log)
                    /\ pc = "done"
                    /\ result = "failure"
                    /\ err = "CommitError"
                    /\ failedPhase = "Partitions"
    /\ Completed("Partitions") =>
        \A d \in 1..Len(config.Disks) :
            \E c \in LogIdx : log[c].op = "Commit" /\ log[c].ent = d /\ log[c].ok

\* C17's case: the first disk, with a wipe and two partitions, was committed
\* and the commit of the second disk failed, which ended the run.
C17_Witness ==
    /\ Len(config.Disks) = 2
    /\ config.Disks[1].WipeTable
    /\ config.Disks[1].Partitions = 2
    /\ Len(log) = 8
    /\ log[3].op = "WipeTable"
    /\ log[5].op = "CreatePartition" /\ log[5].item = 2
    /\ log[6].op = "Commit" /\ log[6].ent = 1 /\ log[6].ok
    /\ log[8].op = "Commit" /\ log[8].ent = 2 /\ ~log[8].ok
    /\ result = "failure"

\* The place of a call in the processing of one filesystem.
FsRank(op) ==
    CASE op = "mkfs" -> 1
      [] op = "TempDir" -> 2
      [] op = "Mount" -> 3
      [] op = "WriteFile" -> 4
      [] op = "Unmount" -> 5
      [] op = "Remove" -> 6

\* The calls of the filesystem phase on a filesystem, at position i of the log.
IsFsCall(i) == log[i].phase = "Filesystems" /\ log[i].op # "WaitOnDevices"

\* C18: the calls of the filesystem phase are made filesystem by filesystem
\* in the order of the configuration, and for one filesystem in the order
\* mkfs, temporary directory, mount, the file writes in the order of the
\* configuration, unmount, removal, each at most once.  mkfs is run only for
\* a filesystem with initialize set, with the formatter of its format and the
\* arguments: the configured options in order, the force flag of that
\* formatter, the device.  The run fails after a failed mkfs, mount or file
\* write, and the only calls after it are the unmount and the removal for
\* the filesystem it was made for.
C18_FilesystemsInOrder ==
    /\ \A i, j \in LogIdx :
        (i < j /\ IsFsCall(i) /\ IsFsCall(j)) =>
            /\ log[i].ent <= log[j].ent
            /\ log[i].ent = log[j].ent =>
                IF log[i].op = "WriteFile" /\ log[j].op = "WriteFile"
                THEN log[i].item < log[j].item
                ELSE FsRank(log[i].op) < FsRank(log[j].op)
    /\ \A i \in LogIdx :
        (IsFsCall(i) /\ log[i].op = "WriteFile") =>
            /\ log[i].item \in 1..config.Filesystems[log[i].ent].Files
            /\ log[i - 1].ent = log[i].ent
            /\ log[i - 1].ok
            /\ IF log[i].item = 1
               THEN log[i - 1].op = "Mount"
               ELSE log[i - 1].op = "WriteFile" /\ log[i - 1].item = log[i].item - 1
    /\ \A i \in LogIdx :
        log[i].op = "mkfs" =>
            LET k == log[i].ent
                fs == config.Filesystems[k]
                args == log[i].args
            IN  /\ fs.Initialize
                /\ fs.Format = "ext4" =>
                    (log[i].arg = "/sbin/mkfs.ext4" /\ args[fs.Options + 1] = Lit("-F"))
                /\ fs.Format = "btrfs" =>
                    (log[i].arg = "/sbin/mkfs.btrfs" /\ args[fs.Options + 1] = Lit("--force"))
                /\ Len(args) = fs.Options + 2
                /\ \A o \in 1..fs.Options : args[o] = <<"option", k, o>>
                /\ args[fs.Options + 2] = <<"filesystem", k, 0>>
    /\ \A f \in LogIdx :
        (IsFsCall(f) /\ log[f].op \in {"mkfs", "Mount", "WriteFile"} /\ ~log[f].ok) =>
            /\ \A j \in (f + 1)..Len(log) :
                log[j].op \in {"Unmount", "Remove"} /\ log[j].ent = log[f].ent
            /\ result # "success"
            /\ pc = "done" => (result = "failure" /\ failedPhase = "Filesystems")
            /\ pc \in {"unmount", "removeTmp", "done"}

\* C18's case: an ext4 filesystem with one option and one file was formatted
\* with the arguments option, -F, device, then mounted, written and
\* unmounted, and Run has succeeded.
C18_Witness ==
    /\ result = "success"
    /\ Len(config.Filesystems) = 1
    /\ config.Filesystems[1].Format = "ext4"
    /\ config.Filesystems[1].Options = 1
    /\ \E i \in LogIdx :
        /\ i + 5 = Len(log)
        /\ log[i].op = "mkfs" /\ log[i].arg = "/sbin/mkfs.ext4" /\ log[i].ok
        /\ log[i].args = <<<<"option", 1, 1>>, Lit("-F"), <<"filesystem", 1, 0>>>>
        /\ log[i + 1].op = "TempDir"
        /\ log[i + 2].op = "Mount" /\ log[i + 2].ok
        /\ log[i + 3].op = "WriteFile" /\ log[i + 3].ok
        /\ log[i + 4].op = "Unmount" /\ log[i + 4].ok
        /\ log[i + 5].op = "Remove" /\ log[i + 5].ok

\* C20: after a failed mount of a filesystem nothing is written to it and no
\* unmount of it is attempted; the only call that follows is the removal of
\* its temporary directory, which succeeds; createFiles returns the mount
\* error, and Run fails in the filesystem phase with it.
C20_MountFailureAborts ==
    \A m \in LogIdx :
        (log[m].op = "Mount" /\ ~log[m].ok) =>
            LET k == log[m].ent IN
            /\ k \notin mounted
            /\ \A i \in LogIdx : log[i].ent = k => ~FsCall(i, k, "WriteFile")
            /\ \A i \in LogIdx : log[i].ent = k => ~FsCall(i, k, "Unmount")
            /\ m = Len(log) =>
                (pc = "removeTmp" /\ idx = k /\ cfErr = "MountError" /\ result = "none")
            /\ m < Len(log) =>
                /\ m + 1 = Len(log)
                /\ FsCall(m + 1, k, "Remove") /\ log[m + 1].ok
                /\ k \notin tmpdirs
                /\ pc = "done"
                /\ result = "failure"
                /\ failedPhase = "Filesystems"
                /\ err = "MountError"

\* C20's case: the mount of the second filesystem failed after the first was
\* populated; its directory was removed and Run has failed with the mount
\* error.
C20_Witness ==
    /\ pc = "done"
    /\ err = "MountError"
    /\ Len(log) >= 2
    /\ log[Len(log) - 1].op = "Mount" /\ ~log[Len(log) - 1].ok
    /\ log[Len(log) - 1].ent = 2
    /\ log[Len(log)].op = "Remove" /\ log[Len(log)].ok
    /\ \E i \in LogIdx : FsCall(i, 1, "WriteFile") /\ log[i].ok
    /\ tmpdirs = {}

\* The device dev is in the list devs.
InDevs(dev, devs) == \E k \in 1..Len(devs) : devs[k] = dev

\* A member device of some array is the device of another array of the
\* configuration.
SomeArrayStacked == \E a \in 1..Len(config.Arrays) : config.Arrays[a].Stacked

\* C19: the RAID phase and the filesystem phase each wait exactly once, before
\* any other call of the phase, and the wait names the devices of all the
\* entities of the phase: every member device of every array, the device of
\* every filesystem.  No array is assembled, and no filesystem formatted or
\* mounted, unless that wait has succeeded.  A wait that names the device of
\* an array of the configuration does not succeed, because no array is
\* assembled before it: the RAID phase then fails with the timeout and mdadm
\* is not run for any array.
C19_WaitUpFrontForAll ==
    /\ \A i \in LogIdx :
        (log[i].op = "WaitOnDevices" /\ log[i].phase = "Raids") =>
            /\ \A a \in 1..Len(config.Arrays) :
                \A k \in 1..config.Arrays[a].Devices :
                    InDevs(IF config.Arrays[a].Stacked /\ k = config.Arrays[a].Devices
                           THEN ArrayDev(a - 1) ELSE <<"member", a, k>>, log[i].devs)
            /\ \A j \in 1..(i - 1) : log[j].phase = "Partitions"
            /\ \A j \in (i + 1)..Len(log) :
                PhaseNo(log[j].phase) > 2 \/ (log[j].op = "mdadm" /\ log[i].ok)
            /\ log[i].ok => ~SomeArrayStacked
    /\ \A i \in LogIdx :
        (log[i].op = "WaitOnDevices" /\ log[i].phase = "Filesystems") =>
            /\ \A f \in 1..Len(config.Filesystems) :
                InDevs(<<"filesystem", f, 0>>, log[i].devs)
            /\ \A j \in 1..(i - 1) : PhaseNo(log[j].phase) < 3
            /\ \A j \in (i + 1)..Len(log) :
                PhaseNo(log[j].phase) > 3
                \/ (log[j].op # "WaitOnDevices" /\ log[i].ok)
    /\ \A j \in LogIdx :
        log[j].op \in {"mdadm", "mkfs", "Mount"} =>
            \E i \in 1..(j - 1) :
                log[i].op = "WaitOnDevices" /\ log[i].phase = log[j].phase /\ log[i].ok
    /\ SomeArrayStacked =>
        /\ \A j \in LogIdx : log[j].op # "mdadm"
        /\ assembled = {}
        /\ ~Completed("Raids")
        /\ result # "success"
        /\ failedPhase = "Raids" => err = "DeviceTimeout"

\* C19's case: the second array has the first as its last member; the wait of
\* the RAID phase, which named the device of the first array, has failed and
\* Run has returned without running mdadm.
C19_Witness ==
    /\ Len(config.Arrays) = 2
    /\ config.Arrays[2].Stacked
    /\ pc = "done"
    /\ failedPhase = "Raids"
    /\ err = "DeviceTimeout"
    /\ Len(log) = 1
    /\ log[1].op = "WaitOnDevices" /\ ~log[1].ok
    /\ InDevs(ArrayDev(1), log[1].devs)
    /\ assembled = {}

=============================================================================
